---- MODULE Spec2Model ----
(***************************************************************************)
(* Nexus team selector: the App component (flow controller), the shuffle   *)
(* engine aggressiveShuffle and the identity service generateTeamIdentities*)
(*                                                                         *)
(* JavaScript arrays are 0-based, TLA+ sequences 1-based: an operator that *)
(* takes an index of the code (i, j, idx, start) takes it 0-based and adds *)
(* one where it reads the sequence.                                        *)
(***************************************************************************)
EXTENDS Integers, Sequences, FiniteSets, Bags, TLC

VARIABLES
    step,          \* useState 'config' | 'players' | 'results'
    config,        \* useState GeneratorConfig
    players,       \* useState Player[]: a sequence of object references
    heap,          \* the Player objects: reference -> [id, name]
    teams,         \* useState Team[]
    isGenerating,  \* useState boolean
    isExporting,   \* useState boolean
    error,         \* useState string | null
    readers,       \* FileReaders whose onload has not fired yet
    requests,      \* generateTeamIdentities calls that have not settled,
                   \* oldest first
    exports,       \* how many toPng calls have not settled yet
    events,        \* history: how many user events have been handled
    shArray,       \* aggressiveShuffle: parameter array
    shPasses,      \* aggressiveShuffle: parameter passes
    shResult,      \* aggressiveShuffle: local result
    shP,           \* aggressiveShuffle: loop variable p
    shI,           \* aggressiveShuffle: loop variable i
    shDraws,       \* history: calls of crypto.getRandomValues so far
    shPc           \* aggressiveShuffle: "idle" | "outer" | "inner" | "done"

appVars == <<step, config, players, heap, teams, isGenerating, isExporting,
             error, readers, requests, exports, events>>
shVars  == <<shArray, shPasses, shResult, shP, shI, shDraws, shPc>>
vars    == <<appVars, shVars>>

(***************************************************************************)
(* Bounds of the model                                                     *)
(***************************************************************************)
MaxEvents == 6        \* user events (typing, clicks, file picks) in one run
MaxRefs == 12         \* Player objects alive at once
MaxRequests == 2      \* identity requests in flight at once
MaxReaders == 1       \* file reads in flight at once
MaxShuffleLen == 3    \* longest array given to aggressiveShuffle on its own
MaxPasses == 2        \* most passes given to aggressiveShuffle on its own

(***************************************************************************)
(* Program constants                                                       *)
(***************************************************************************)
GeneratePasses == 10  \* aggressiveShuffle<Player>(players, 10)
HalfWord == 65536     \* 2^16: a Uint32 is kept as two 16-bit halves

Null == "null"

(***************************************************************************)
(* Shuffle engine                                                          *)
(***************************************************************************)

\* The values of randomBuffer[0] the model draws: a Uint32 as [hi, lo] with
\* value hi * 2^16 + lo. 0, ceil(2^32 / 3), 2^31 and 2^32 - 1.
RandomValues ==
    { [hi |-> 0, lo |-> 0],
      [hi |-> 21845, lo |-> 21846],
      [hi |-> 32768, lo |-> 0],
      [hi |-> 65535, lo |-> 65535] }

\* DrawIndex with Math.round in place of Math.floor
DrawIndexRounded(r, i) ==
    (r.hi * (i + 1) + ((r.lo * (i + 1)) \div HalfWord) + (HalfWord \div 2))
        \div HalfWord

\* Math.floor((randomBuffer[0] / (0xffffffff + 1)) * (i + 1)): the division by
\* 2^32 and the product with i + 1 are exact in a double, so this is
\* floor(r * (i + 1) / 2^32), computed here on the 16-bit halves of r.
DrawIndex(r, i) ==
    (r.hi * (i + 1) + ((r.lo * (i + 1)) \div HalfWord)) \div HalfWord

\* [result[i], result[j]] = [result[j], result[i]]
SwapOverwrite(result, i, j) ==
    [result EXCEPT ![i + 1] = result[j + 1]]

Swap(result, i, j) ==
    [result EXCEPT ![i + 1] = result[j + 1], ![j + 1] = result[i + 1]]

\* The state of the loops: the array so far and the draws not yet consumed.
\* for (let i = ...; i > 0; i--) { draw; swap } from index i on
RECURSIVE InnerLoop(_, _)
InnerLoop(st, i) ==
    IF i > 0
    THEN InnerLoop([result |-> Swap(st.result, i, DrawIndex(Head(st.draws), i)),
                    draws |-> Tail(st.draws)], i - 1)
    ELSE st

\* for (let p = 0; p < passes; p++) { for (let i = result.length - 1; ...) }
RECURSIVE OuterLoop(_, _, _)
OuterLoop(st, p, passes) ==
    IF p < passes
    THEN OuterLoop(InnerLoop(st, Len(st.result) - 1), p + 1, passes)
    ELSE st

\* aggressiveShuffle(array, passes), where draws are the values that
\* crypto.getRandomValues gives, in the order of the calls.
aggressiveShuffle(array, passes, draws) ==
    OuterLoop([result |-> array, draws |-> draws], 0, passes).result

\* How many values a call draws.
DrawsNeeded(len, passes) == IF len > 1 THEN passes * (len - 1) ELSE 0

\* Every array of length <= MaxShuffleLen over these elements, duplicates included.
ShuffleElems == {"x", "y", "z"}
ShuffleInputs ==
    UNION { [1..n -> ShuffleElems] : n \in 0..MaxShuffleLen }

\* aggressiveShuffle run one loop test at a time, after
\*     const result = [...array];
\*     for (let p = 0; p < passes; p++) { let i = result.length - 1; ...
ShuffleOuter ==
    /\ shPc = "outer"
    /\ IF shP < shPasses
       THEN /\ shI' = Len(shResult) - 1
            /\ shPc' = "inner"
       ELSE /\ shI' = shI
            /\ shPc' = "done"
    /\ UNCHANGED <<shArray, shPasses, shResult, shP, shDraws>>

\* ShuffleInner with the loop test i >= 0
ShuffleInnerFromZero ==
    /\ shPc = "inner"
    /\ shI >= 0
    /\ \E r \in RandomValues :
          shResult' = Swap(shResult, shI, DrawIndex(r, shI))
    /\ shI' = shI - 1
    /\ shDraws' = shDraws + 1
    /\ UNCHANGED <<shArray, shPasses, shP, shPc>>

\*     for (...; i > 0; i--) { getRandomValues; j = ...; swap }
ShuffleInner ==
    /\ shPc = "inner"
    /\ shI > 0
    /\ \E r \in RandomValues :
          shResult' = Swap(shResult, shI, DrawIndex(r, shI))
    /\ shI' = shI - 1
    /\ shDraws' = shDraws + 1
    /\ UNCHANGED <<shArray, shPasses, shP, shPc>>

\*     the inner loop's test fails: p++
ShuffleNextPass ==
    /\ shPc = "inner"
    /\ shI <= 0
    /\ shP' = shP + 1
    /\ shPc' = "outer"
    /\ UNCHANGED <<shArray, shPasses, shResult, shI, shDraws>>

(***************************************************************************)
(* Text: a string is a sequence of one-character strings                   *)
(***************************************************************************)

\* The characters String.prototype.trim removes, among those the model uses.
WhiteSpace == {" ", "\t", "\n", "\r"}

\* The characters of the class [,\n\r;]
Separators == {",", "\n", "\r", ";"}

RECURSIVE TrimStart(_)
TrimStart(s) ==
    IF s # <<>> /\ Head(s) \in WhiteSpace THEN TrimStart(Tail(s)) ELSE s

RECURSIVE TrimEnd(_)
TrimEnd(s) ==
    IF s # <<>> /\ s[Len(s)] \in WhiteSpace
    THEN TrimEnd(SubSeq(s, 1, Len(s) - 1))
    ELSE s

\* n.trim()
TrimIdentity(s) == s

Trim(s) == TrimEnd(TrimStart(s))

\* The 1-based position of the first separator of text, 0 when it has none.
FirstSeparator(text) ==
    IF \E k \in 1..Len(text) : text[k] \in Separators
    THEN CHOOSE k \in 1..Len(text) :
            /\ text[k] \in Separators
            /\ \A m \in 1..(k - 1) : text[m] \notin Separators
    ELSE 0

RECURSIVE DropSeparators(_)
DropSeparators(text) ==
    IF text # <<>> /\ Head(text) \in Separators
    THEN DropSeparators(Tail(text))
    ELSE text

\* text.split(/[,\n\r;]+/): the pieces between maximal runs of separators; a
\* text that starts or ends with a separator gives an empty first or last piece.
RECURSIVE Split(_)
Split(text) ==
    LET k == FirstSeparator(text) IN
    IF k = 0
    THEN <<text>>
    ELSE <<SubSeq(text, 1, k - 1)>>
         \o Split(DropSeparators(SubSeq(text, k + 1, Len(text))))

\* .filter(n => n.length > 0)
FilterNonEmpty(seq) == SelectSeq(seq, LAMBDA n : Len(n) > 0)

\* text.split(/[,\n\r;]+/).map(n => n.trim()).filter(n => n.length > 0)
ParseNames(text) ==
    LET pieces == Split(text) IN
    FilterNonEmpty([k \in 1..Len(pieces) |-> Trim(pieces[k])])


(***************************************************************************)
(* Player objects                                                          *)
(***************************************************************************)
\* A Player[] is a sequence of references into heap, so that arrays holding
\* the same objects ([...players], shuffled.slice(...)) share them. A
\* reference is opaque: Store numbers the objects that some array still holds
\* in the order players, teams, readers find them, and drops the others.

Refs == 1..MaxRefs

FreeObj == [id |-> 0, name |-> <<>>]

RefsOf(array) == { array[k] : k \in 1..Len(array) }

RECURSIVE TeamPlayers(_)
TeamPlayers(ts) ==
    IF ts = <<>> THEN <<>> ELSE Head(ts).players \o TeamPlayers(Tail(ts))

RECURSIVE ReaderPlayers(_)
ReaderPlayers(rs) ==
    IF rs = {} THEN <<>>
    ELSE LET rd == CHOOSE x \in rs : TRUE IN rd.players \o ReaderPlayers(rs \ {rd})

Live(ps, ts, rs) == RefsOf(ps \o TeamPlayers(ts) \o ReaderPlayers(rs))

RECURSIVE FirstOccurrences(_)
FirstOccurrences(array) ==
    IF array = <<>> THEN <<>>
    ELSE LET before == FirstOccurrences(SubSeq(array, 1, Len(array) - 1))
             last == array[Len(array)]
         IN  IF last \in RefsOf(before) THEN before ELSE Append(before, last)

Position(order, ref) == CHOOSE k \in 1..Len(order) : order[k] = ref

Renumber(array, order) == [k \in 1..Len(array) |-> Position(order, array[k])]

Store(ps, ts, rs, h) ==
    LET order == FirstOccurrences(ps \o TeamPlayers(ts) \o ReaderPlayers(rs)) IN
    /\ players' = Renumber(ps, order)
    /\ teams' = [k \in 1..Len(ts) |->
                    [ts[k] EXCEPT !.players = Renumber(@, order)]]
    /\ readers' = { [rd EXCEPT !.players = Renumber(@, order)] : rd \in rs }
    /\ heap' = [r \in Refs |-> IF r <= Len(order) THEN h[order[r]] ELSE FreeObj]

Min(S) == CHOOSE x \in S : \A y \in S : x <= y

\* The n smallest elements of S, ascending.
RECURSIVE FirstN(_, _)
FirstN(S, n) ==
    IF n <= 0 THEN <<>> ELSE <<Min(S)>> \o FirstN(S \ {Min(S)}, n - 1)

\* Math.random().toString(36).substr(2, 9): n tokens no live object carries.
FreshIds(h, live, n) == FirstN(Refs \ { h[r].id : r \in live }, n)

NameOf(h, ref) == h[ref].name
IdOf(h, ref) == h[ref].id
NamesOf(h, array) == [k \in 1..Len(array) |-> NameOf(h, array[k])]
IdsOf(h, array) == [k \in 1..Len(array) |-> IdOf(h, array[k])]

(***************************************************************************)
(* Flow controller: App                                                    *)
(***************************************************************************)

\* A request whose promise was rejected before its first await: the catch
\* block of handleGenerateTeams is queued as a microtask, which runs before
\* any other event or completion.
Rejecting == \E k \in 1..Len(requests) : requests[k].rejected

\* A handler run by a user event, one run when something asynchronous (a file
\* read, a request, a rendering) completes, and one run as a microtask.
UserEvent == ~Rejecting /\ events < MaxEvents /\ events' = events + 1
Completion == ~Rejecting /\ events' = events
Microtask == events' = events

\* useMemo(() => config.playersPerTeam * config.numberOfTeams, [config])
TotalRequired(cfg) == cfg.playersPerTeam * cfg.numberOfTeams

\* What parseInt(e.target.value) gives for the texts typed into the number
\* inputs: NaN (an empty or non-numeric text) or an integer.
NaN == [isNaN |-> TRUE, value |-> 0]
Parsed(x) == [isNaN |-> FALSE, value |-> x]
PlayersPerTeamInputs == {NaN} \cup { Parsed(x) : x \in {-1, 1, 2} }
NumberOfTeamsInputs == {NaN} \cup { Parsed(x) : x \in {-2, 1, 2, 3} }

\* parseInt(e.target.value) || 0
OrZero(v) == IF v.isNaN \/ v.value = 0 THEN 0 ELSE v.value

\* onChange of the "Players per Set" input (rendered in step config)
setPlayersPerTeam(v) ==
    /\ UserEvent
    /\ step = "config"
    /\ config' = [config EXCEPT !.playersPerTeam = OrZero(v)]
    /\ UNCHANGED <<step, players, heap, teams, isGenerating, isExporting, error,
                   readers, requests, exports>>

\* onChange of the "Number of Sets" input (rendered in step config)
setNumberOfTeams(v) ==
    /\ UserEvent
    /\ step = "config"
    /\ config' = [config EXCEPT !.numberOfTeams = OrZero(v)]
    /\ UNCHANGED <<step, players, heap, teams, isGenerating, isExporting, error,
                   readers, requests, exports>>

\* The "Proceed to Names" button: disabled={totalRequired < 2}
ProceedEnabled(cfg) == ~(TotalRequired(cfg) < 2)

handleStartNaming ==
    /\ UserEvent
    /\ step = "config"
    /\ ProceedEnabled(config)
    /\ LET n == TotalRequired(config)
           others == Live(<<>>, teams, readers)
       IN  /\ Cardinality(Refs \ others) >= n
           /\ LET initialPlayers == FirstN(Refs \ others, n)
                  ids == FreshIds(heap, others, n)
                  created == [r \in Refs |->
                      IF r \in RefsOf(initialPlayers)
                      THEN [id |-> ids[Position(initialPlayers, r)], name |-> <<>>]
                      ELSE heap[r]]
              IN  Store(initialPlayers, teams, readers, created)
    /\ step' = "players"
    /\ UNCHANGED <<config, isGenerating, isExporting, error, requests, exports>>

\* The values typed into a player's name input
TypedNames == { <<" ">> }

\* setPlayers(prev => prev.map(p => p.id === id ? { ...p, name } : p))
updatePlayerName(id, name) ==
    /\ UserEvent
    /\ step = "players"
    /\ LET matches == { k \in 1..Len(players) : IdOf(heap, players[k]) = id }
           kept == { players[k] : k \in (1..Len(players)) \ matches }
                   \cup Live(<<>>, teams, readers)
           rank(k) == Cardinality({ m \in matches : m <= k })
       IN  /\ matches # {}
           /\ Cardinality(Refs \ kept) >= Cardinality(matches)
           /\ LET fresh == FirstN(Refs \ kept, Cardinality(matches))
                  mapped == [k \in 1..Len(players) |->
                      IF k \in matches THEN fresh[rank(k)] ELSE players[k]]
                  copied == [r \in Refs |->
                      IF r \in RefsOf(fresh)
                      THEN [id |-> id, name |-> name]
                      ELSE heap[r]]
              IN  Store(mapped, teams, readers, copied)
    /\ UNCHANGED <<step, config, isGenerating, isExporting, error, requests,
                   exports>>

\* The files the user picks for "Import CSV/Text"
CsvTexts ==
    { <<" ", "b", " ", ",", "a">>,
      <<";", "a", ",", " ", "b", ";", "c", "\n", "\r", "d", ",", "e", "\n">> }

\* handleCsvUpload up to reader.readAsText(file): the onload callback closes
\* over the players and totalRequired of the render that handled the event.
handleCsvUpload(text) ==
    /\ UserEvent
    /\ step = "players"
    /\ Cardinality(readers) < MaxReaders
    /\ Store(players, teams,
             readers \cup { [players |-> players,
                             totalRequired |-> TotalRequired(config),
                             text |-> text] },
             heap)
    /\ UNCHANGED <<step, config, isGenerating, isExporting, error, requests,
                   exports>>

\* `Imported ${names.length} names. Filled remaining slots with blanks.`
ImportedMessage(k) ==
    "Imported " \o ToString(k) \o " names. Filled remaining slots with blanks."

\* names.forEach((name, index) => { if (index < newPlayers.length)
\*     newPlayers[index].name = name; }): the objects are written in place.
AssignNames(h, newPlayers, names) ==
    [r \in Refs |->
        LET hits == { index \in 0..(Len(names) - 1) :
                        /\ index < Len(newPlayers)
                        /\ newPlayers[index + 1] = r }
        IN  IF hits = {}
            THEN h[r]
            ELSE [h[r] EXCEPT !.name =
                    names[(CHOOSE index \in hits :
                              \A other \in hits : other <= index) + 1]]]

\* reader.onload
readerOnload(rd) ==
    /\ Completion
    /\ rd \in readers
    /\ LET names == ParseNames(rd.text)
           newPlayers == rd.players
       IN  /\ Store(newPlayers, teams, readers \ {rd},
                    AssignNames(heap, newPlayers, names))
           /\ error' = IF Len(names) < rd.totalRequired
                       THEN ImportedMessage(Len(names))
                       ELSE Null
    /\ UNCHANGED <<step, config, isGenerating, isExporting, requests, exports>>

\* array.slice(start, end) for integers start and end
Slice(array, start, end) ==
    LET len == Len(array)
        from == IF start < 0 THEN (IF len + start < 0 THEN 0 ELSE len + start)
                ELSE (IF start > len THEN len ELSE start)
        to == IF end < 0 THEN (IF len + end < 0 THEN 0 ELSE len + end)
              ELSE (IF end > len THEN len ELSE end)
    IN  SubSeq(array, from + 1, to)

\* players.some(p => !p.name.trim())
SomeBlank(h, ps) == \E k \in 1..Len(ps) : Trim(NameOf(h, ps[k])) = <<>>

\* `Team ${i + 1}`
PlaceholderName(i) == "Team " \o ToString(i + 1)
PlaceholderSlogan == "Shuffling the deck..."

\* NewTeams with id: i + 1
NewTeamsIdsFromOne(shuffled, cfg) ==
    [k \in 1..cfg.numberOfTeams |->
        LET i == k - 1
            start == i * cfg.playersPerTeam
        IN  [id |-> i + 1,
             name |-> PlaceholderName(i),
             slogan |-> PlaceholderSlogan,
             players |-> Slice(shuffled, start, start + cfg.playersPerTeam)]]

\* The loop that fills newTeams from shuffled
NewTeams(shuffled, cfg) ==
    [k \in 1..cfg.numberOfTeams |->
        LET i == k - 1
            start == i * cfg.playersPerTeam
        IN  [id |-> i,
             name |-> PlaceholderName(i),
             slogan |-> PlaceholderSlogan,
             players |-> Slice(shuffled, start, start + cfg.playersPerTeam)]]

\* The draws the model gives one generation: any value for the first call of
\* getRandomValues, and 2^32 - 1 (j = i, a swap with itself) for the others.
LastValue == [hi |-> 65535, lo |-> 65535]
GenerationDraws(len) ==
    { [d \in 1..DrawsNeeded(len, GeneratePasses) |-> IF d = 1 THEN r ELSE LastValue] :
        r \in RandomValues }

\* history: a request is superseded once a later generation or a reset has
\* replaced the team list it was issued for.
Supersede(rqs) == [k \in 1..Len(rqs) |-> [rqs[k] EXCEPT !.superseded = TRUE]]

Remove(seq, k) == SubSeq(seq, 1, k - 1) \o SubSeq(seq, k + 1, Len(seq))

BlankNamesMessage == "Please provide names for all players."

\* The "GENERATE TEAMS" button (step players, disabled={isGenerating}) and the
\* "Reshuffle" button (step results)
GenerateClickable ==
    \/ step = "players" /\ ~isGenerating
    \/ step = "results"

\* handleGenerateTeams up to its await
handleGenerateTeams ==
    /\ UserEvent
    /\ GenerateClickable
    /\ IF SomeBlank(heap, players)
       THEN /\ error' = BlankNamesMessage
            /\ UNCHANGED <<step, players, heap, teams, readers, isGenerating,
                           requests>>
       ELSE /\ Len(requests) < MaxRequests
            /\ \E draws \in GenerationDraws(Len(players)), rejected \in BOOLEAN :
                  LET shuffled == aggressiveShuffle(players, GeneratePasses, draws)
                      newTeams == NewTeams(shuffled, config)
                  IN  /\ Store(players, newTeams, readers, heap)
                      /\ requests' = Append(Supersede(requests),
                            [superseded |-> FALSE, n |-> Len(newTeams),
                             rejected |-> rejected])
            /\ error' = Null
            /\ isGenerating' = TRUE
            /\ step' = "results"
    /\ UNCHANGED <<config, isExporting, exports>>

(***************************************************************************)
(* Identity service: generateTeamIdentities                                *)
(***************************************************************************)

\* The arrays JSON.parse(text.trim()) gives: an entry's "" stands for a name
\* or slogan that is empty or absent.
Responses ==
    { << [name |-> "Night Owls", slogan |-> ""] >>,
      << [name |-> "", slogan |-> "Go!"],
         [name |-> "Aces", slogan |-> "All in"],
         [name |-> "Third", slogan |-> "Extra"] >> }

\* The catch block: teams.map((_, i) => ({ name: `Squad ${i + 1}`, ... }))
FallbackName(i) == "Squad " \o ToString(i + 1)
FallbackSlogan == "Ready for action!"
FallbackIdentities(n) ==
    [k \in 1..n |-> [name |-> FallbackName(k - 1), slogan |-> FallbackSlogan]]

\* PatchTeams without the slogan line
PatchTeamsNameOnly(prev, identities) ==
    [k \in 1..Len(prev) |->
        LET has == k <= Len(identities) IN
        [prev[k] EXCEPT
            !.name = IF has /\ identities[k].name # "" THEN identities[k].name ELSE @]]

\* prev.map((t, idx) => ({ ...t, name: identities[idx]?.name || t.name,
\*                         slogan: identities[idx]?.slogan || t.slogan }))
PatchTeams(prev, identities) ==
    [k \in 1..Len(prev) |->
        LET has == k <= Len(identities) IN
        [prev[k] EXCEPT
            !.name = IF has /\ identities[k].name # "" THEN identities[k].name ELSE @,
            !.slogan = IF has /\ identities[k].slogan # ""
                       THEN identities[k].slogan ELSE @]]

GenerationErrorMessage == "An error occurred during generation."

\* identityResolved with setStep('results') after the await
identityResolvedShowsResults(k, identities) ==
    /\ Completion
    /\ k \in 1..Len(requests)
    /\ requests' = Remove(requests, k)
    /\ teams' = PatchTeams(teams, identities)
    /\ isGenerating' = FALSE
    /\ step' = "results"
    /\ UNCHANGED <<config, players, heap, isExporting, error, readers, exports>>

\* Request k resolves with the parsed response; handleGenerateTeams resumes
\* after its await and runs its finally block.
identityResolved(k, identities) ==
    /\ Completion
    /\ k \in 1..Len(requests)
    /\ requests' = Remove(requests, k)
    /\ teams' = PatchTeams(teams, identities)
    /\ isGenerating' = FALSE
    /\ UNCHANGED <<step, config, players, heap, isExporting, error, readers,
                   exports>>

\* generateContent throws, the response has no text or JSON.parse throws: the
\* service's catch block resolves request k with the fallback identities.
identityFallback(k) ==
    /\ Completion
    /\ k \in 1..Len(requests)
    /\ requests' = Remove(requests, k)
    /\ teams' = PatchTeams(teams, FallbackIdentities(requests[k].n))
    /\ isGenerating' = FALSE
    /\ UNCHANGED <<step, config, players, heap, isExporting, error, readers,
                   exports>>

\* identityRejected without the finally block of line 100
identityRejectedStuck(k) ==
    /\ Microtask
    /\ k \in 1..Len(requests)
    /\ requests[k].rejected
    /\ requests' = Remove(requests, k)
    /\ error' = GenerationErrorMessage
    /\ UNCHANGED <<step, config, players, heap, teams, isGenerating,
                   isExporting, readers, exports>>

\* new GoogleGenAI({ apiKey: process.env.API_KEY! }) stands before the
\* service's try: a throw there rejects request k at once, and the catch block of
\* handleGenerateTeams runs, then its finally block.
identityRejected(k) ==
    /\ Microtask
    /\ k \in 1..Len(requests)
    /\ requests[k].rejected
    /\ requests' = Remove(requests, k)
    /\ error' = GenerationErrorMessage
    /\ isGenerating' = FALSE
    /\ UNCHANGED <<step, config, players, heap, teams, isExporting, readers,
                   exports>>

(***************************************************************************)
(* Export and reset                                                        *)
(***************************************************************************)

\* The export buttons without disabled={isExporting}
ExportClickableAlways == step = "results"

\* The PNG and PDF buttons are rendered in step results, where
\* resultsRef.current is set, with disabled={isExporting}.
ExportClickable == step = "results" /\ ~isExporting

\* exportAsImage up to its await toPng(...)
exportAsImage ==
    /\ UserEvent
    /\ ExportClickable
    /\ isExporting' = TRUE
    /\ exports' = exports + 1
    /\ UNCHANGED <<step, config, players, heap, teams, isGenerating, error,
                   readers, requests>>

\* exportAsPdf up to its await toPng(...)
exportAsPdf ==
    /\ UserEvent
    /\ ExportClickable
    /\ isExporting' = TRUE
    /\ exports' = exports + 1
    /\ UNCHANGED <<step, config, players, heap, teams, isGenerating, error,
                   readers, requests>>

\* exportSettled with a catch block that calls setError
exportSettledSetsError(ok) ==
    /\ Completion
    /\ exports > 0
    /\ isExporting' = FALSE
    /\ exports' = exports - 1
    /\ error' = IF ok THEN error ELSE "Export failed"
    /\ UNCHANGED <<step, config, players, heap, teams, isGenerating,
                   readers, requests>>

\* toPng settles: the rest of the try block (ok) or the catch block (~ok),
\* then the finally block.
exportSettled(ok) ==
    /\ Completion
    /\ exports > 0
    /\ isExporting' = FALSE
    /\ exports' = exports - 1
    /\ UNCHANGED <<step, config, players, heap, teams, isGenerating, error,
                   readers, requests>>

\* handleReset without setError(null)
handleResetKeepsError ==
    /\ UserEvent
    /\ step \in {"players", "results"}
    /\ step' = "config"
    /\ Store(<<>>, <<>>, readers, heap)
    /\ requests' = Supersede(requests)
    /\ UNCHANGED <<config, isGenerating, isExporting, exports, error>>

\* The "Cancel" (step players) and "New Game" (step results) buttons
handleReset ==
    /\ UserEvent
    /\ step \in {"players", "results"}
    /\ step' = "config"
    /\ Store(<<>>, <<>>, readers, heap)
    /\ error' = Null
    /\ requests' = Supersede(requests)
    /\ UNCHANGED <<config, isGenerating, isExporting, exports>>

(***************************************************************************)
(* Specifications                                                          *)
(***************************************************************************)

\* The useState initial values
AppInit ==
    /\ step = "config"
    /\ config = [playersPerTeam |-> 2, numberOfTeams |-> 2]
    /\ players = <<>>
    /\ heap = [r \in Refs |-> FreeObj]
    /\ teams = <<>>
    /\ isGenerating = FALSE
    /\ isExporting = FALSE
    /\ error = Null
    /\ readers = {}
    /\ requests = <<>>
    /\ exports = 0
    /\ events = 0

ShuffleIdle ==
    /\ shArray = <<>>
    /\ shPasses = 0
    /\ shResult = <<>>
    /\ shP = 0
    /\ shI = 0
    /\ shDraws = 0
    /\ shPc = "idle"

Init == AppInit /\ ShuffleIdle

AppNext ==
    \/ \E v \in PlayersPerTeamInputs : setPlayersPerTeam(v)
    \/ \E v \in NumberOfTeamsInputs : setNumberOfTeams(v)
    \/ handleStartNaming
    \/ \E id \in Refs, name \in TypedNames : updatePlayerName(id, name)
    \/ \E text \in CsvTexts : handleCsvUpload(text)
    \/ \E rd \in readers : readerOnload(rd)
    \/ handleGenerateTeams
    \/ \E k \in 1..Len(requests), identities \in Responses :
          identityResolved(k, identities)
    \/ \E k \in 1..Len(requests) : identityFallback(k)
    \/ \E k \in 1..Len(requests) : identityRejected(k)
    \/ exportAsImage
    \/ exportAsPdf
    \/ \E ok \in BOOLEAN : exportSettled(ok)
    \/ handleReset

Next == AppNext /\ UNCHANGED shVars

Spec == Init /\ [][Next]_vars

\* aggressiveShuffle called on its own: const result = [...array]
\* Every outstanding identity request and export rendering settles.
RequestSettles ==
    \E k \in 1..Len(requests) :
        \/ identityFallback(k)
        \/ identityRejected(k)
        \/ \E identities \in Responses : identityResolved(k, identities)

ExportSettles == \E ok \in BOOLEAN : exportSettled(ok)

LiveSpec ==
    /\ Spec
    /\ WF_vars(RequestSettles /\ UNCHANGED shVars)
    /\ WF_vars(ExportSettles /\ UNCHANGED shVars)

ShuffleInit ==
    /\ AppInit
    /\ shArray \in ShuffleInputs
    /\ shPasses \in 0..MaxPasses
    /\ shResult = shArray
    /\ shP = 0
    /\ shI = 0
    /\ shDraws = 0
    /\ shPc = "outer"

ShuffleNext ==
    /\ \/ ShuffleOuter
       \/ ShuffleInner
       \/ ShuffleNextPass
    /\ UNCHANGED appVars

ShuffleSpec == ShuffleInit /\ [][ShuffleNext]_vars

(***************************************************************************)
(* Properties                                                              *)
(***************************************************************************)

Count(seq, e) == Cardinality({ k \in 1..Len(seq) : seq[k] = e })

\* seq and other hold the same elements, each as often
SameElements(seq, other) ==
    /\ Len(seq) = Len(other)
    /\ \A e \in RefsOf(seq) \cup RefsOf(other) : Count(seq, e) = Count(other, e)

NoDuplicates(seq) == \A e \in RefsOf(seq) : Count(seq, e) = 1

\* Blank after trimming, said without Trim: every character is white space.
IsBlank(name) == \A k \in 1..Len(name) : name[k] \in WhiteSpace

\* C1: in every state with step = results and a configuration with
\* playersPerTeam >= 1 and numberOfTeams >= 2, there are exactly numberOfTeams
\* teams and each has exactly playersPerTeam players.
C1_TeamsMatchConfig ==
    (step = "results" /\ config.playersPerTeam >= 1 /\ config.numberOfTeams >= 2)
    => /\ Len(teams) = config.numberOfTeams
       /\ \A k \in 1..Len(teams) : Len(teams[k].players) = config.playersPerTeam

\* C2: a generation or reshuffle leaves teams whose players, concatenated in
\* team-id order, are the roster in some order: each player of the roster is
\* in exactly one team, once.
C2_TeamsPartitionRoster ==
    [][(handleGenerateTeams /\ ~SomeBlank(heap, players))
        => LET members == IdsOf(heap', TeamPlayers(teams')) IN
           /\ SameElements(members, IdsOf(heap', players'))
           /\ NoDuplicates(members)]_vars

\* C3: when aggressiveShuffle returns, its result has the length of its
\* input and holds the same elements, each as often as the input does.
C3_ShuffleIsPermutation ==
    shPc = "done" => SameElements(shResult, shArray)

\* C3 witness: a call on an array with a repeated element has drawn in two
\* passes and returns another order.
C3_Witness ==
    /\ shPc = "done"
    /\ shPasses = 2
    /\ shDraws = 4
    /\ shArray = <<"x", "y", "x">>
    /\ shResult = <<"y", "x", "x">>

\* C4: the response (or fallback) of an identity request whose generation has
\* been followed by another one leaves the name and the slogan of every team
\* as they were.
C4_StaleResponseIgnored ==
    [][\A k \in 1..Len(requests) :
          (/\ requests[k].superseded
           /\ \/ identityFallback(k)
              \/ \E identities \in Responses : identityResolved(k, identities))
          => /\ Len(teams') = Len(teams)
             /\ \A t \in 1..Len(teams) :
                   /\ teams'[t].name = teams[t].name
                   /\ teams'[t].slogan = teams[t].slogan]_vars

\* C5: when the identity service fails for the latest generation, of n teams,
\* the settled request leaves team i named "Squad i+1" with the slogan
\* "Ready for action!" for every i < n, sets no error message and leaves
\* isGenerating false.
C5_FailureGivesFallback ==
    [][\A k \in 1..Len(requests) :
          (/\ ~requests[k].superseded
           /\ identityFallback(k) \/ identityRejected(k))
          => /\ Len(teams') = requests[k].n
             /\ \A i \in 0..(requests[k].n - 1) :
                   /\ teams'[i + 1].name = FallbackName(i)
                   /\ teams'[i + 1].slogan = FallbackSlogan
             /\ error' = error
             /\ isGenerating' = FALSE]_vars

\* C6: Reset leaves step = config, no players, no teams and no error message,
\* whatever the state it starts from; these four values are the same after a
\* second Reset as after the first.
C6_ResetPostcondition ==
    [][handleReset
        => /\ step' = "config"
           /\ players' = <<>>
           /\ teams' = <<>>
           /\ error' = Null]_vars

\* C6 witness: Reset has run on the results of a reshuffle while both
\* identity requests were outstanding.
C6_Witness ==
    /\ step = "config"
    /\ players = <<>>
    /\ teams = <<>>
    /\ error = Null
    /\ isGenerating
    /\ Len(requests) = 2
    /\ \A k \in 1..Len(requests) : requests[k].superseded

\* C7: generation with a player whose name is blank after trimming sets the
\* error message that asks for all names and changes neither step, teams,
\* players nor isGenerating; it shuffles nothing and issues no request.
C7_BlankNameBlocksGeneration ==
    [][(/\ handleGenerateTeams
        /\ \E k \in 1..Len(players) : IsBlank(NameOf(heap, players[k])))
        => /\ error' = BlankNamesMessage
           /\ UNCHANGED <<step, teams, players, heap, isGenerating, requests>>]_vars

\* C7 witness: generation was refused for a roster whose only blank name is
\* one of spaces.
C7_Witness ==
    /\ step = "players"
    /\ error = BlankNamesMessage
    /\ teams = <<>>
    /\ requests = <<>>
    /\ \E k \in 1..Len(players) :
          /\ NameOf(heap, players[k]) = <<" ">>
          /\ \A m \in (1..Len(players)) \ {k} : NameOf(heap, players[m]) # <<>>

\* C8: a file read that completes in the naming step gives slot m the m-th
\* parsed name for every m up to the smaller of the number of names and the
\* number of slots, and leaves the number of players and the sequence of
\* their ids as they were.
C8_ImportIsPositional ==
    [][\A rd \in readers :
          (step = "players" /\ readerOnload(rd))
          => LET names == ParseNames(rd.text) IN
             /\ Len(players') = Len(players)
             /\ IdsOf(heap', players') = IdsOf(heap, players)
             /\ \A m \in 1..Len(players') :
                   m <= Len(names) => NameOf(heap', players'[m]) = names[m]]_vars

\* C9: a file read that completes with k names for the n slots of the roster
\* leaves, when k < n, the slots k+1..n blank, the message that k names were
\* imported and step as it was; when k >= n it leaves no message.
C9_ShortImportBlanksRest ==
    [][\A rd \in readers :
          (step = "players" /\ readerOnload(rd))
          => LET k == Len(ParseNames(rd.text))
                 n == Len(players')
             IN  /\ k < n =>
                       /\ \A m \in (k + 1)..n : IsBlank(NameOf(heap', players'[m]))
                       /\ error' = ImportedMessage(k)
                       /\ step' = step
                 /\ k >= n => error' = Null]_vars

\* C10: isGenerating, once true, is false again later, and so is isExporting,
\* when every outstanding identity request and export rendering settles.
C10_FlagsEventuallyFalse ==
    /\ isGenerating ~> ~isGenerating
    /\ isExporting ~> ~isExporting

\* C10 witness: the identity service has rejected, the error is shown and
\* isGenerating is false again while an export is being rendered.
C10_Witness ==
    /\ step = "results"
    /\ error = GenerationErrorMessage
    /\ ~isGenerating
    /\ requests = <<>>
    /\ isExporting
    /\ exports = 1

\* C11: aggressiveShuffle called with passes = 0, or on an array of length at
\* most 1, returns its input in the same order and has drawn no random value.
C11_ShuffleNoOp ==
    (shPc = "done" /\ (shPasses = 0 \/ Len(shArray) <= 1))
    => /\ shResult = shArray
       /\ shDraws = 0

\* C11 witness: a call with two passes on an array of one element has gone
\* through both passes and returned.
C11_Witness ==
    /\ shPc = "done"
    /\ shPasses = 2
    /\ shP = 2
    /\ Len(shArray) = 1
    /\ shResult = shArray
    /\ shDraws = 0

\* C12: at most one export, image or document, is in flight, and isExporting
\* is true exactly while one is.
C12_OneExportInFlight ==
    /\ exports <= 1
    /\ isExporting <=> exports = 1

\* C12 witness: an export is in flight on the results of a settled generation,
\* so both export buttons are disabled.
C12_Witness ==
    /\ step = "results"
    /\ exports = 1
    /\ isExporting
    /\ ~ExportClickable
    /\ ~isGenerating
    /\ error = Null

\* C13: starting an export and its settling, by success or by failure, leave
\* step, config, players, teams, error and isGenerating as they were; once it
\* has settled on the results, an export can be started again.
C13_ExportChangesOnlyFlag ==
    [][(exportAsImage \/ exportAsPdf \/ \E ok \in BOOLEAN : exportSettled(ok))
        => /\ UNCHANGED <<step, config, players, heap, teams, error, isGenerating>>
           /\ (isExporting /\ step = "results") => ExportClickable']_vars

\* C13 witness: an export was started on results whose identity request is
\* still outstanding.
C13_Witness ==
    /\ step = "results"
    /\ isExporting
    /\ exports = 1
    /\ isGenerating
    /\ Len(requests) = 1
    /\ teams # <<>>

\* C14 as stated: an identity response gives team idx the name and the slogan
\* of its entry idx when it has one and leaves them as they were when it has
\* none; it changes no team's id or players, nor the number or order of teams.
C14_PatchPerIndex ==
    [][\A k \in 1..Len(requests) : \A identities \in Responses :
          identityResolved(k, identities)
          => /\ Len(teams') = Len(teams)
             /\ \A t \in 1..Len(teams) :
                   LET has == t <= Len(identities) IN
                   /\ teams'[t].id = teams[t].id
                   /\ teams'[t].players = teams[t].players
                   /\ teams'[t].name =
                         IF has THEN identities[t].name ELSE teams[t].name
                   /\ teams'[t].slogan =
                         IF has THEN identities[t].slogan ELSE teams[t].slogan]_vars

\* C14 amended: an identity response gives team idx the name of its entry idx
\* when it has one with a name that is not empty, and leaves the name as it
\* was otherwise; likewise the slogan; it changes no team's id or players, nor
\* the number or order of teams.
C14_PatchNonEmptyPerIndex ==
    [][\A k \in 1..Len(requests) : \A identities \in Responses :
          identityResolved(k, identities)
          => /\ Len(teams') = Len(teams)
             /\ \A t \in 1..Len(teams) :
                   LET has == t <= Len(identities) IN
                   /\ teams'[t].id = teams[t].id
                   /\ teams'[t].players = teams[t].players
                   /\ teams'[t].name =
                         IF has /\ identities[t].name # ""
                         THEN identities[t].name ELSE teams[t].name
                   /\ teams'[t].slogan =
                         IF has /\ identities[t].slogan # ""
                         THEN identities[t].slogan ELSE teams[t].slogan]_vars

\* C14 witness: a response of one entry with an empty slogan has been patched
\* into two teams: the first has the new name and its placeholder slogan, the
\* second both placeholders.
C14_Witness ==
    /\ step = "results"
    /\ requests = <<>>
    /\ Len(teams) = 2
    /\ teams[1].name = "Night Owls"
    /\ teams[1].slogan = PlaceholderSlogan
    /\ teams[2].name = PlaceholderName(1)
    /\ teams[2].slogan = PlaceholderSlogan

\* C15: the synchronous part of a generation or reshuffle leaves step =
\* results and a team list whose ids are 0..numberOfTeams-1 in order, team i
\* named "Team i+1" with the slogan "Shuffling the deck...", whatever the
\* team list was before, while its identity request is outstanding.
C15_FreshPlaceholders ==
    [][(handleGenerateTeams /\ ~SomeBlank(heap, players))
        => /\ step' = "results"
           /\ { teams'[t].id : t \in 1..Len(teams') } = 0..(config.numberOfTeams - 1)
           /\ \A t \in 1..Len(teams') :
                 /\ teams'[t].id = t - 1
                 /\ teams'[t].name = "Team " \o ToString(t)
                 /\ teams'[t].slogan = "Shuffling the deck..."
           /\ requests' # <<>>
           /\ ~requests'[Len(requests')].superseded]_vars

\* C15 witness: a reshuffle made while the request of the generation before
\* it was outstanding has left two teams with their placeholders.
C15_Witness ==
    /\ step = "results"
    /\ Len(requests) = 2
    /\ requests[1].superseded
    /\ ~requests[2].superseded
    /\ Len(teams) = 2
    /\ \A t \in 1..2 :
          /\ teams[t].id = t - 1
          /\ teams[t].name = PlaceholderName(t - 1)
          /\ teams[t].slogan = PlaceholderSlogan

\* C16: when an identity request settles, by resolving or by rejecting, in
\* the state a Reset has left (step = config, no players, no teams, no error
\* message), the state stays so.
C16_ResetSurvivesSettling ==
    [][\A k \in 1..Len(requests) :
          (/\ step = "config" /\ players = <<>> /\ teams = <<>> /\ error = Null
           /\ \/ identityFallback(k)
              \/ identityRejected(k)
              \/ \E identities \in Responses : identityResolved(k, identities))
          => (step' = "config" /\ players' = <<>> /\ teams' = <<>> /\ error' = Null)]_vars

\* C16 witness: after a generation, a reshuffle and a Reset, one of the two
\* requests has settled and the other is outstanding; the state is as Reset
\* left it.
C16_Witness ==
    /\ step = "config"
    /\ players = <<>>
    /\ teams = <<>>
    /\ error = Null
    /\ ~isGenerating
    /\ Len(requests) = 1
    /\ requests[1].superseded

\* C17: isGenerating is true exactly when at least one identity request is in
\* flight.
C17_GeneratingIffInFlight ==
    isGenerating <=> Len(requests) > 0


\* C18: once teams exist, a step that is neither a generation or reshuffle nor
\* a Reset leaves the players of every team, their order and their names as
\* they were; this includes the completion of a file read.
C18_TeamPlayersReadOnly ==
    [][(teams # <<>> /\ ~handleGenerateTeams /\ ~handleReset)
        => /\ Len(teams') = Len(teams)
           /\ \A t \in 1..Len(teams) :
                 /\ IdsOf(heap', teams'[t].players) = IdsOf(heap, teams[t].players)
                 /\ NamesOf(heap', teams'[t].players) = NamesOf(heap, teams[t].players)]_vars

\* C19: in every state with step = players or step = results totalRequired is
\* at least 2 and the roster has exactly totalRequired players, and in every
\* state with step = results the sizes of the teams sum to totalRequired.
C19_RosterMatchesTotalRequired ==
    /\ step \in {"players", "results"}
       => /\ TotalRequired(config) >= 2
          /\ Len(players) = TotalRequired(config)
    /\ step = "results" => Len(TeamPlayers(teams)) = TotalRequired(config)

\* C20: in every state where step is not config, playersPerTeam is at least 1
\* and numberOfTeams is at least 2.
C20_ValidConfigOutsideConfigStep ==
    step # "config" => (config.playersPerTeam >= 1 /\ config.numberOfTeams >= 2)

\* C21: wherever aggressiveShuffle is about to draw, in any pass and at any
\* index i from length - 1 down to 1, the index j it computes from the random
\* value r satisfies 0 <= j <= i, for r = 0, r = 2^32 - 1 and the values of r
\* between them that the model draws, so both swapped positions are inside
\* the array.
C21_DrawnIndexInRange ==
    (shPc = "inner" /\ shI > 0)
    => /\ shI + 1 <= Len(shResult)
       /\ \A r \in RandomValues :
             /\ 0 <= DrawIndex(r, shI)
             /\ DrawIndex(r, shI) <= shI

\* C21 witness: the second pass over three elements is about to draw at
\* i = 2, where r = 0 gives j = 0 and r = 2^32 - 1 gives j = 2.
C21_Witness ==
    /\ shPc = "inner"
    /\ shP = 1
    /\ shI = 2
    /\ shDraws = 2
    /\ Len(shResult) = 3
    /\ DrawIndex([hi |-> 0, lo |-> 0], shI) = 0
    /\ DrawIndex([hi |-> 65535, lo |-> 65535], shI) = 2

====
